---- MODULE Spec2Model ----
(***************************************************************************)
(* MilkFlow Smart Manager: the data store (tables, triggers, row-level     *)
(* security policies), the add-collection form with its payment            *)
(* calculation, and the supplier dashboard with its realtime subscription. *)
(*                                                                         *)
(* Numbers.  A DECIMAL(n,2) column is held as an integer number of         *)
(* hundredths.  A JavaScript number is held as an exact decimal            *)
(* [m |-> mantissa, d |-> fractional digits] in normal form (no trailing   *)
(* zero digit), so the arithmetic of the calculator is exact decimal       *)
(* arithmetic; the binary rounding error of IEEE doubles is not modelled.  *)
(* A text input of type number with step 0.01 holds either the empty       *)
(* string (EMPTY) or a number of hundredths.                               *)
(***************************************************************************)
EXTENDS Integers, Sequences, FiniteSets, TLC

\* SQL NULL / JavaScript null; identifiers are >= 1 and amounts are >= 0
NULL == -1
\* the empty string '' of a form field
EMPTY == -1

(***************************************************************************)
(* Bounds                                                                  *)
(***************************************************************************)
MaxUsers == 2
MaxSuppliers == 2
MaxCollections == 2

Phones == {"9000000001", "9000000002"}
AppRoles == {"admin", "supplier"}
\* the role key of the signup metadata is absent
NoRole == "absent"

VARIABLES
    auth_users,        \* auth.users: set of [id, phone]
    profiles,          \* public.profiles: set of [id, phone]
    user_roles,        \* public.user_roles: set of [user_id, role]
    suppliers,         \* public.suppliers: set of [id, user_id, phone, is_active]
    milk_collections,  \* public.milk_collections: set of rows
    nextUserId,        \* next fresh auth.users id (gen_random_uuid)
    nextSupplierId,    \* next fresh suppliers id
    nextCollectionId,  \* next fresh milk_collections id
    current_date,      \* CURRENT_DATE of the database
    lastOp,            \* [op, caller] of the last statement that took effect
    selectResult,      \* rows returned by the last SELECT on milk_collections
    realtime,          \* postgres_changes INSERT payloads in flight to the page
    \* AddCollectionForm component state
    formMode,          \* "flat" (rate entered) or "fat" (rate from fat percentage)
    supplierChoices,   \* useState<Supplier[]>: ids of the Select's items
    selectedSupplier, quantity, fatPercentage, baseRate, ratePerLiter,
    calc,              \* result of calculateAmount() in the last render
    \* Supplier page component state
    pageUser,          \* useAuth().user of the page's session
    supplier,          \* useState<SupplierData | null>: id of the supplier row
    collections,       \* useState<Collection[]>
    stats,             \* useState({totalCollections, totalAmount})
    fetchPending,      \* fetchSupplierData between its queries and its setState
    download,          \* the file handleDownload handed to the browser last
    \* reports
    report,            \* the result of the aggregation computed last
    \* the dropped OTP login
    otp_verifications, \* public.otp_verifications: [exists, rows of [phone, otp]]
    \* Auth page: login form state
    loginPhone, loginPassword, loginOTP, otpSent, otpVerified,
    \* AuthProvider state
    user,              \* useState<User | null>: the id of the account
    session,           \* useState<Session | null>: the id of its account
    userRole,          \* useState<'admin' | 'supplier' | null>
    roleFetches,       \* fetchUserRole calls that have not answered yet
    authLast,          \* the provider step handled last
    route,             \* the location of the router: the page that is mounted
    pageQueries,       \* the data queries a page's guard effect issued last
    \* edge functions
    job,               \* daily-milk-summary: one invocation of the handler
    sendSms            \* send-sms: one invocation of the handler

dbVars == <<auth_users, profiles, user_roles, suppliers, milk_collections,
            nextUserId, nextSupplierId, nextCollectionId, current_date>>

histVars == <<lastOp, selectResult>>

formVars == <<formMode, supplierChoices, selectedSupplier, quantity, fatPercentage, baseRate,
              ratePerLiter, calc>>

pageVars == <<pageUser, supplier, collections, stats, fetchPending>>

loginVars == <<loginPhone, loginPassword, loginOTP, otpSent, otpVerified>>

providerVars == <<user, session, userRole, roleFetches, authLast, route>>

fnVars == <<job, sendSms>>

appVars == <<report, otp_verifications, loginVars, providerVars, fnVars,
             download, pageQueries>>

vars == <<dbVars, histVars, realtime, formVars, pageVars, appVars>>

(***************************************************************************)
(* Row-level security                                                      *)
(***************************************************************************)
\* the request runs as database role "authenticated" (a JWT is present)
Authenticated(caller) == caller # NULL

has_role(_user_id, _role) ==
    \E r \in user_roles : r.user_id = _user_id /\ r.role = _role

\* the policy without its role test
AdminsCanManageCollections_anyUser(caller) == Authenticated(caller)

\* "Admins can manage collections": FOR ALL TO authenticated
AdminsCanManageCollections(caller) ==
    Authenticated(caller) /\ has_role(caller, "admin")

\* the policy without its user_id = auth.uid() test
SuppliersCanViewOwnCollections_anySupplier(caller, row) ==
    /\ Authenticated(caller)
    /\ row.supplier_id \in {s.id : s \in suppliers}

\* "Suppliers can view own collections": FOR SELECT TO authenticated
SuppliersCanViewOwnCollections(caller, row) ==
    /\ Authenticated(caller)
    /\ row.supplier_id \in {s.id : s \in {t \in suppliers : t.user_id = caller}}

\* "Deny anonymous access to collections": FOR SELECT TO anon USING (false)
DenyAnonymousAccessToCollections(caller, row) ==
    ~Authenticated(caller) /\ FALSE

\* permissive policies are OR-ed
CanSelectCollection(caller, row) ==
    \/ AdminsCanManageCollections(caller)
    \/ SuppliersCanViewOwnCollections(caller, row)
    \/ DenyAnonymousAccessToCollections(caller, row)

\* the policy without its role test
AdminsCanManageSuppliers_anyUser(caller) == Authenticated(caller)

\* "Admins can manage suppliers": FOR ALL TO authenticated
AdminsCanManageSuppliers(caller) ==
    Authenticated(caller) /\ has_role(caller, "admin")

\* "Suppliers can view own data" / "Admins can manage suppliers" on SELECT
CanSelectSupplier(caller, s) ==
    \/ AdminsCanManageSuppliers(caller)
    \/ Authenticated(caller) /\ s.user_id = caller

\* the insert policy testing for any role instead of 'admin'
OnlyAdminsCanInsertRoles_anyRole(caller) ==
    \E r \in user_roles : r.user_id = caller

\* "Only admins can insert/update/delete roles"
OnlyAdminsCanInsertRoles(caller) == has_role(caller, "admin")
OnlyAdminsCanUpdateRoles(caller) == has_role(caller, "admin")
OnlyAdminsCanDeleteRoles(caller) == has_role(caller, "admin")

(***************************************************************************)
(* Triggers on auth.users                                                  *)
(***************************************************************************)
\* AFTER INSERT trigger on_auth_user_created
handle_new_user_profiles(newId, metaPhone) ==
    profiles \cup {[id |-> newId, phone |-> metaPhone]}

\* the trigger ignoring the role of the signup metadata
handle_new_user_roles_alwaysSupplier(newId, metaRole) ==
    user_roles \cup {[user_id |-> newId, role |-> "supplier"]}

handle_new_user_roles(newId, metaRole) ==
    user_roles \cup
        {[user_id |-> newId,
          role |-> IF metaRole = NoRole THEN "supplier" ELSE metaRole]}

\* the trigger without its UPDATE
link_supplier_to_user_never(newId, user_phone) == suppliers

\* AFTER INSERT trigger on_auth_user_created_link_supplier
link_supplier_to_user(newId, user_phone) ==
    IF user_phone # ""
    THEN {IF s.phone = user_phone /\ s.user_id = NULL
          THEN [s EXCEPT !.user_id = newId] ELSE s : s \in suppliers}
    ELSE suppliers

(***************************************************************************)
(* Exact decimal numbers (JavaScript number) and DECIMAL(n,2) columns      *)
(***************************************************************************)
RECURSIVE Pow10(_)
Pow10(n) == IF n = 0 THEN 1 ELSE 10 * Pow10(n - 1)

RECURSIVE Norm(_)
Norm(x) ==
    IF x.d > 0 /\ x.m % 10 = 0
    THEN Norm([m |-> x.m \div 10, d |-> x.d - 1])
    ELSE x

Dec(m, d) == Norm([m |-> m, d |-> d])

\* a * b
Mul(a, b) == Dec(a.m * b.m, a.d + b.d)

\* a + b
Add(a, b) ==
    IF a.d >= b.d
    THEN Dec(a.m + b.m * Pow10(a.d - b.d), a.d)
    ELSE Dec(a.m * Pow10(b.d - a.d) + b.m, b.d)

\* a / 100
Div100(a) == Dec(a.m, a.d + 2)

\* parseFloat of the text of a number input with step 0.01
parseFloat(text) == Dec(text, 2)

\* assignment of a non-negative number to a DECIMAL(n,2) column: numeric
\* rounding (half away from zero) to two fractional digits, in hundredths
ToDecimal2(x) ==
    IF x.d <= 2
    THEN x.m * Pow10(2 - x.d)
    ELSE (x.m + 5 * Pow10(x.d - 3)) \div Pow10(x.d - 2)

\* the number read back from a DECIMAL(n,2) column
FromDecimal2(h) == Dec(h, 2)

(***************************************************************************)
(* Initial state: the schema after all migrations, no rows                 *)
(***************************************************************************)
InitDb ==
    /\ auth_users = {}
    /\ profiles = {}
    /\ user_roles = {}
    /\ suppliers = {}
    /\ milk_collections = {}
    /\ nextUserId = 1
    /\ nextSupplierId = 1
    /\ nextCollectionId = 1
    /\ current_date = 1

InitHist ==
    /\ lastOp = [op |-> "init", caller |-> NULL]
    /\ selectResult = {}

(***************************************************************************)
(* Account creation and deletion                                           *)
(***************************************************************************)
\* AuthContext.signUp: supabase.auth.signUp with metadata {phone, role};
\* the insert into auth.users fires both triggers in the same transaction
signUp(phone, role) ==
    /\ \A u \in auth_users : u.phone # phone      \* the e-mail is unique
    /\ auth_users' = auth_users \cup {[id |-> nextUserId, phone |-> phone]}
    /\ profiles' = handle_new_user_profiles(nextUserId, phone)
    /\ user_roles' = handle_new_user_roles(nextUserId, role)
    /\ suppliers' = link_supplier_to_user(nextUserId, phone)
    /\ nextUserId' = nextUserId + 1
    /\ lastOp' = [op |-> "signUp", caller |-> NULL, role |-> role]
    /\ selectResult' = {}
    /\ UNCHANGED <<milk_collections, nextSupplierId, nextCollectionId,
                   current_date, realtime>>

\* rows removed by ON DELETE CASCADE when the auth.users row uid goes:
\* profiles.id -> suppliers.user_id -> milk_collections.supplier_id
CascadeSuppliers(uid) == {s \in suppliers : s.user_id = uid}

CascadeCollections(uid) ==
    {c \in milk_collections :
        c.supplier_id \in {s.id : s \in CascadeSuppliers(uid)}}

\* the delete without the cascade to user_roles
delete_user_keepsRoles(caller) ==
    /\ \E u \in auth_users : u.id = caller
    /\ \A c \in milk_collections \ CascadeCollections(caller) :
          c.created_by # caller
    /\ auth_users' = {u \in auth_users : u.id # caller}
    /\ profiles' = {p \in profiles : p.id # caller}
    /\ user_roles' = user_roles
    /\ suppliers' = suppliers \ CascadeSuppliers(caller)
    /\ milk_collections' = milk_collections \ CascadeCollections(caller)
    /\ lastOp' = [op |-> "delete_user", caller |-> caller]
    /\ selectResult' = {}
    /\ UNCHANGED <<nextUserId, nextSupplierId, nextCollectionId,
                   current_date, realtime>>

\* public.delete_user(): DELETE FROM auth.users WHERE id = auth.uid()
delete_user(caller) ==
    /\ \E u \in auth_users : u.id = caller
    \* milk_collections.created_by REFERENCES profiles(id) has no ON DELETE
    \* action: a surviving row that names the profile aborts the statement
    /\ \A c \in milk_collections \ CascadeCollections(caller) :
          c.created_by # caller
    /\ auth_users' = {u \in auth_users : u.id # caller}
    /\ profiles' = {p \in profiles : p.id # caller}
    /\ user_roles' = {r \in user_roles : r.user_id # caller}
    /\ suppliers' = suppliers \ CascadeSuppliers(caller)
    /\ milk_collections' = milk_collections \ CascadeCollections(caller)
    /\ lastOp' = [op |-> "delete_user", caller |-> caller]
    /\ selectResult' = {}
    /\ UNCHANGED <<nextUserId, nextSupplierId, nextCollectionId,
                   current_date, realtime>>

(***************************************************************************)
(* Role assignments: statements on user_roles under its policies           *)
(***************************************************************************)
InsertRole(caller, uid, role) ==
    /\ OnlyAdminsCanInsertRoles(caller)
    /\ \E u \in auth_users : u.id = uid                 \* foreign key
    /\ [user_id |-> uid, role |-> role] \notin user_roles  \* UNIQUE(user_id, role)
    /\ user_roles' = user_roles \cup {[user_id |-> uid, role |-> role]}
    /\ lastOp' = [op |-> "InsertRole", caller |-> caller]
    /\ selectResult' = {}
    /\ UNCHANGED <<auth_users, profiles, suppliers, milk_collections,
                   nextUserId, nextSupplierId, nextCollectionId,
                   current_date, realtime>>

UpdateRole(caller, r, role) ==
    /\ OnlyAdminsCanUpdateRoles(caller)
    /\ r \in user_roles
    /\ r.role # role
    /\ [r EXCEPT !.role = role] \notin user_roles       \* UNIQUE(user_id, role)
    /\ user_roles' = (user_roles \ {r}) \cup {[r EXCEPT !.role = role]}
    /\ lastOp' = [op |-> "UpdateRole", caller |-> caller]
    /\ selectResult' = {}
    /\ UNCHANGED <<auth_users, profiles, suppliers, milk_collections,
                   nextUserId, nextSupplierId, nextCollectionId,
                   current_date, realtime>>

DeleteRole(caller, r) ==
    /\ OnlyAdminsCanDeleteRoles(caller)
    /\ r \in user_roles
    /\ user_roles' = user_roles \ {r}
    /\ lastOp' = [op |-> "DeleteRole", caller |-> caller]
    /\ selectResult' = {}
    /\ UNCHANGED <<auth_users, profiles, suppliers, milk_collections,
                   nextUserId, nextSupplierId, nextCollectionId,
                   current_date, realtime>>

(***************************************************************************)
(* ManageSuppliers                                                         *)
(***************************************************************************)
\* the insert linking the new row to the existing account of its phone
handleAddSupplier_linksAccount(caller, phone) ==
    /\ AdminsCanManageSuppliers(caller)
    /\ suppliers' = suppliers \cup
          {[id |-> nextSupplierId,
            user_id |-> IF \E u \in auth_users : u.phone = phone
                        THEN (CHOOSE u \in auth_users : u.phone = phone).id
                        ELSE NULL,
            phone |-> phone,
            is_active |-> TRUE]}
    /\ nextSupplierId' = nextSupplierId + 1
    /\ lastOp' = [op |-> "handleAddSupplier", caller |-> caller]
    /\ selectResult' = {}
    /\ UNCHANGED <<auth_users, profiles, user_roles, milk_collections,
                   nextUserId, nextCollectionId, current_date, realtime>>

\* handleAddSupplier: insert {supplier_code, full_name, phone, address};
\* user_id is not given (NULL), is_active takes its default TRUE
handleAddSupplier(caller, phone) ==
    /\ AdminsCanManageSuppliers(caller)
    /\ suppliers' = suppliers \cup
          {[id |-> nextSupplierId, user_id |-> NULL, phone |-> phone,
            is_active |-> TRUE]}
    /\ nextSupplierId' = nextSupplierId + 1
    /\ lastOp' = [op |-> "handleAddSupplier", caller |-> caller]
    /\ selectResult' = {}
    /\ UNCHANGED <<auth_users, profiles, user_roles, milk_collections,
                   nextUserId, nextCollectionId, current_date, realtime>>

\* the update also clearing the link of the row
handleToggleActive_unlink(caller, id, currentStatus) ==
    /\ AdminsCanManageSuppliers(caller)
    /\ \E s \in suppliers : s.id = id /\ s.is_active = currentStatus
    /\ suppliers' = {IF s.id = id
                     THEN [s EXCEPT !.is_active = ~currentStatus,
                                    !.user_id = NULL]
                     ELSE s : s \in suppliers}
    /\ lastOp' = [op |-> "handleToggleActive", caller |-> caller]
    /\ selectResult' = {}
    /\ UNCHANGED <<auth_users, profiles, user_roles, milk_collections,
                   nextUserId, nextSupplierId, nextCollectionId,
                   current_date, realtime>>

\* the update also voiding the amounts of the supplier's records
handleToggleActive_voidsCollections(caller, id, currentStatus) ==
    /\ AdminsCanManageSuppliers(caller)
    /\ \E s \in suppliers : s.id = id /\ s.is_active = currentStatus
    /\ suppliers' = {IF s.id = id THEN [s EXCEPT !.is_active = ~currentStatus]
                     ELSE s : s \in suppliers}
    /\ milk_collections' = {IF c.supplier_id = id
                            THEN [c EXCEPT !.total_amount = 0]
                            ELSE c : c \in milk_collections}
    /\ lastOp' = [op |-> "handleToggleActive", caller |-> caller]
    /\ selectResult' = {}
    /\ UNCHANGED <<auth_users, profiles, user_roles,
                   nextUserId, nextSupplierId, nextCollectionId,
                   current_date, realtime>>

\* handleToggleActive(id, currentStatus): update({is_active: !currentStatus})
handleToggleActive(caller, id, currentStatus) ==
    /\ AdminsCanManageSuppliers(caller)
    /\ \E s \in suppliers : s.id = id /\ s.is_active = currentStatus
    /\ suppliers' = {IF s.id = id THEN [s EXCEPT !.is_active = ~currentStatus]
                     ELSE s : s \in suppliers}
    /\ lastOp' = [op |-> "handleToggleActive", caller |-> caller]
    /\ selectResult' = {}
    /\ UNCHANGED <<auth_users, profiles, user_roles, milk_collections,
                   nextUserId, nextSupplierId, nextCollectionId,
                   current_date, realtime>>

\* the delete without the cascade to milk_collections
handleDeleteSupplier_noCascade(caller, supplierToDelete) ==
    /\ AdminsCanManageSuppliers(caller)
    /\ \E s \in suppliers : s.id = supplierToDelete
    /\ suppliers' = {s \in suppliers : s.id # supplierToDelete}
    /\ lastOp' = [op |-> "handleDeleteSupplier", caller |-> caller]
    /\ selectResult' = {}
    /\ UNCHANGED <<auth_users, profiles, user_roles, milk_collections,
                   nextUserId, nextSupplierId, nextCollectionId,
                   current_date, realtime>>

\* ManageSuppliers.handleDeleteConfirm: delete().eq('id', supplierToDelete);
\* milk_collections.supplier_id is ON DELETE CASCADE
handleDeleteSupplier(caller, supplierToDelete) ==
    /\ AdminsCanManageSuppliers(caller)
    /\ \E s \in suppliers : s.id = supplierToDelete
    /\ suppliers' = {s \in suppliers : s.id # supplierToDelete}
    /\ milk_collections' =
          {c \in milk_collections : c.supplier_id # supplierToDelete}
    /\ lastOp' = [op |-> "handleDeleteSupplier", caller |-> caller]
    /\ selectResult' = {}
    /\ UNCHANGED <<auth_users, profiles, user_roles, nextUserId,
                   nextSupplierId, nextCollectionId, current_date, realtime>>

(***************************************************************************)
(* Collections                                                             *)
(***************************************************************************)
\* the row the database builds from an insert payload: the numbers are
\* coerced to their DECIMAL columns (fat arrives as NULL or already in
\* hundredths), id, collection_date and created_by take their defaults
NewCollection(supplier_id, qty, fat, rate, total) ==
    [id |-> nextCollectionId,
     supplier_id |-> supplier_id,
     collection_date |-> current_date,
     quantity_liters |-> ToDecimal2(qty),
     fat_percentage |-> fat,
     rate_per_liter |-> ToDecimal2(rate),
     total_amount |-> ToDecimal2(total),
     created_by |-> NULL]

\* CHECK constraints of milk_collections (fat_percentage is nullable)
CollectionChecks(row) ==
    /\ row.quantity_liters > 0
    /\ row.fat_percentage = NULL
         \/ (row.fat_percentage >= 0 /\ row.fat_percentage <= 10000)
    /\ row.rate_per_liter >= 0
    /\ row.total_amount >= 0

\* the INSERT is accepted: policy WITH CHECK (the USING expression of the
\* FOR ALL policy), foreign key and CHECK constraints
InsertAccepted(caller, row) ==
    /\ AdminsCanManageCollections(caller)
    /\ \E s \in suppliers : s.id = row.supplier_id
    /\ CollectionChecks(row)

\* the realtime server sends the INSERT to the page's channel when the
\* page is subscribed (supplier?.id set), the row passes the channel's
\* filter supplier_id=eq.<id> and the subscriber may select the row
Notify(row) ==
    IF supplier # NULL /\ row.supplier_id = supplier
       /\ SuppliersCanViewOwnCollections(pageUser, row)
    THEN Append(realtime, row)
    ELSE realtime

InsertCollection(caller, row) ==
    /\ InsertAccepted(caller, row)
    /\ milk_collections' = milk_collections \cup {row}
    /\ nextCollectionId' = nextCollectionId + 1
    /\ realtime' = Notify(row)
    /\ lastOp' = [op |-> "InsertCollection", caller |-> caller]
    /\ selectResult' = {}
    /\ UNCHANGED <<auth_users, profiles, user_roles, suppliers, nextUserId,
                   nextSupplierId, current_date>>

\* CollectionsTable.handleDeleteConfirm: delete().eq('id', collectionToDelete)
handleDeleteCollection(caller, collectionToDelete) ==
    /\ AdminsCanManageCollections(caller)
    /\ \E c \in milk_collections : c.id = collectionToDelete
    /\ milk_collections' =
          {c \in milk_collections : c.id # collectionToDelete}
    /\ lastOp' = [op |-> "handleDeleteCollection", caller |-> caller]
    /\ selectResult' = {}
    /\ UNCHANGED <<auth_users, profiles, user_roles, suppliers, nextUserId,
                   nextSupplierId, nextCollectionId, current_date, realtime>>

\* from('milk_collections').select('*') with an optional .eq('supplier_id', f)
SelectRows(caller, f) ==
    {c \in milk_collections :
        CanSelectCollection(caller, c) /\ (f = NULL \/ c.supplier_id = f)}

\* a SELECT that returns rows (an empty answer leaves no trace)
SelectCollections(caller, f) ==
    /\ SelectRows(caller, f) # {}
    /\ selectResult' = SelectRows(caller, f)
    /\ lastOp' = [op |-> "SelectCollections", caller |-> caller]
    /\ UNCHANGED <<dbVars, realtime>>

(***************************************************************************)
(* AddCollectionForm: payment calculation                                  *)
(***************************************************************************)
Zero == Dec(0, 0)

\* flat-rate calculateAmount(): quantity * ratePerLiter
calculateAmountFlat(quantity_, ratePerLiter_) ==
    IF quantity_ = EMPTY \/ ratePerLiter_ = EMPTY
    THEN Zero
    ELSE Mul(parseFloat(quantity_), parseFloat(ratePerLiter_))

\* fat-adjusted calculateAmount(): rate = base * (1 + fat / 100)
calculateAmountFat(quantity_, fatPercentage_, baseRate_) ==
    IF quantity_ = EMPTY \/ fatPercentage_ = EMPTY \/ baseRate_ = EMPTY
    THEN [ratePerLiter |-> Zero, totalAmount |-> Zero]
    ELSE LET qty == parseFloat(quantity_)
             fat == parseFloat(fatPercentage_)
             base == parseFloat(baseRate_)
             rate == Mul(base, Add(Dec(1, 0), Div100(fat)))
         IN  [ratePerLiter |-> rate, totalAmount |-> Mul(qty, rate)]

\* what a render of the form computes: const totalAmount = calculateAmount()
\* (flat-rate), const {ratePerLiter, totalAmount} = calculateAmount() (fat)
Render(mode, quantity_, fatPercentage_, baseRate_, ratePerLiter_) ==
    IF mode = "flat"
    THEN [totalAmount |-> calculateAmountFlat(quantity_, ratePerLiter_)]
    ELSE calculateAmountFat(quantity_, fatPercentage_, baseRate_)

\* flat-rate handleSubmit, up to the insert: the browser holds back the
\* submit event unless quantity >= 0.01 and rate >= 0 (min attributes)
handleSubmitFlat(caller, selectedSupplier_, quantity_, ratePerLiter_) ==
    /\ selectedSupplier_ # EMPTY /\ quantity_ # EMPTY /\ ratePerLiter_ # EMPTY
    /\ quantity_ >= 1 /\ ratePerLiter_ >= 0
    /\ LET totalAmount == calculateAmountFlat(quantity_, ratePerLiter_)
       IN  InsertCollection(caller,
               NewCollection(selectedSupplier_, parseFloat(quantity_), NULL,
                             parseFloat(ratePerLiter_), totalAmount))

\* fat-adjusted handleSubmit, up to the insert: the browser holds back the
\* submit event unless quantity >= 0.01, 0 <= fat <= 100 and base rate >= 0
\* or empty (the base rate input is not required)
handleSubmitFat(caller, selectedSupplier_, quantity_, fatPercentage_, baseRate_) ==
    /\ selectedSupplier_ # EMPTY /\ quantity_ # EMPTY /\ fatPercentage_ # EMPTY
    /\ quantity_ >= 1 /\ fatPercentage_ >= 0 /\ fatPercentage_ <= 10000
    /\ LET r == calculateAmountFat(quantity_, fatPercentage_, baseRate_)
       IN  InsertCollection(caller,
               NewCollection(selectedSupplier_, parseFloat(quantity_),
                             ToDecimal2(parseFloat(fatPercentage_)), r.ratePerLiter,
                             r.totalAmount))

(***************************************************************************)
(* Specification of the data store: every statement by every caller        *)
(***************************************************************************)
\* component state of a form and a page that are not mounted
InitFormIdle ==
    /\ formMode = "flat"
    /\ supplierChoices = {}
    /\ selectedSupplier = EMPTY
    /\ quantity = EMPTY
    /\ fatPercentage = EMPTY
    /\ baseRate = EMPTY
    /\ ratePerLiter = 3500
    /\ calc = Render("flat", EMPTY, EMPTY, EMPTY, 3500)

InitPageIdle ==
    /\ pageUser = NULL
    /\ supplier = NULL
    /\ collections = <<>>
    /\ stats = [totalCollections |-> 0, totalAmount |-> 0]
    /\ fetchPending = [active |-> FALSE, rows |-> <<>>]
    /\ realtime = <<>>

\* no report has been computed
InitReportIdle ==
    /\ report = [op |-> "none"]

\* Auth page useState initial values
InitLogin ==
    /\ loginPhone = ""
    /\ loginPassword = ""
    /\ loginOTP = ""
    /\ otpSent = FALSE
    /\ otpVerified = FALSE

\* userRole null (of the type of a role)
NullRole == "null"

\* AuthProvider useState initial values; getSession() finds no session
InitProvider ==
    /\ user = NULL
    /\ session = NULL
    /\ userRole = NullRole
    /\ roleFetches = {}
    /\ authLast = "mount"
    /\ route = "/auth"

\* no dashboard has issued its queries
InitGuards ==
    /\ pageQueries = [page |-> "none", user |-> NULL, userRole |-> NullRole]

\* nothing has been exported
InitDownload ==
    /\ download = [filename |-> "", csvContent |-> <<>>, collections |-> <<>>]

\* send-sms before a request: no header read, no user, nothing sent
SmsIdle ==
    [pc |-> "idle", hasHeader |-> FALSE, token |-> NULL, body |-> "none",
     user |-> NULL, wasAdmin |-> FALSE, called |-> FALSE, status |-> 0]

\* no edge function has been invoked
InitFunctionsIdle ==
    /\ job = [pc |-> "idle", list |-> <<>>, i |-> 0, outcomes |-> <<>>,
              results |-> <<>>, status |-> 0]
    /\ sendSms = SmsIdle

\* nobody is signed in; otp_verifications has been dropped
InitAppIdle ==
    /\ InitReportIdle
    /\ otp_verifications = [exists |-> FALSE, rows |-> {}]
    /\ InitLogin
    /\ InitProvider
    /\ InitFunctionsIdle
    /\ InitDownload
    /\ InitGuards

Init == InitDb /\ InitHist /\ InitFormIdle /\ InitPageIdle /\ InitAppIdle

\* anonymous, or the holder of a token of an account
Callers == {NULL} \cup {u.id : u \in auth_users}

SupplierIds == {s.id : s \in suppliers}

\* form inputs tried against the data store
DbQuantities == {100}
DbRates == {3500}

\* the form and the page are not mounted
Idle == UNCHANGED <<formVars, pageVars, appVars>>

Next ==
    \/ /\ nextUserId <= MaxUsers
       /\ \E phone \in Phones, role \in AppRoles \cup {NoRole} :
             signUp(phone, role)
       /\ Idle
    \/ /\ \E caller \in Callers : delete_user(caller)
       /\ Idle
    \/ /\ \E caller \in Callers, u \in auth_users, role \in AppRoles :
             InsertRole(caller, u.id, role)
       /\ Idle
    \/ /\ \E caller \in Callers, r \in user_roles, role \in AppRoles :
             UpdateRole(caller, r, role)
       /\ Idle
    \/ /\ \E caller \in Callers, r \in user_roles : DeleteRole(caller, r)
       /\ Idle
    \/ /\ nextSupplierId <= MaxSuppliers
       /\ \E caller \in Callers, phone \in Phones :
             handleAddSupplier(caller, phone)
       /\ Idle
    \/ /\ \E caller \in Callers, id \in SupplierIds, currentStatus \in BOOLEAN :
             handleToggleActive(caller, id, currentStatus)
       /\ Idle
    \/ /\ \E caller \in Callers, id \in SupplierIds :
             handleDeleteSupplier(caller, id)
       /\ Idle
    \/ /\ nextCollectionId <= MaxCollections
       /\ \E caller \in Callers, sel \in SupplierIds,
             q \in DbQuantities, r \in DbRates :
             handleSubmitFlat(caller, sel, q, r)
       /\ Idle
    \/ /\ \E caller \in Callers, c \in milk_collections :
             handleDeleteCollection(caller, c.id)
       /\ Idle
    \/ /\ \E caller \in Callers, f \in {NULL} \cup SupplierIds :
             SelectCollections(caller, f)
       /\ Idle

Spec == Init /\ [][Next]_vars

(***************************************************************************)
(* Specification of the add-collection form, used by a signed-in admin     *)
(***************************************************************************)
MaxFormCollections == 2

\* what the operator types: '' or a number of hundredths
FlatQuantities == {EMPTY, 0, 1, 35, 12050}
FlatRates == {EMPTY, 0, 1, 70, 3500}
FatQuantities == {EMPTY, 0, 1, 1000}
FatPercentages == {EMPTY, 0, 450}
BaseRates == {EMPTY, 0, 50}

\* one admin account and one active supplier row exist
InitFormDb ==
    /\ auth_users = {[id |-> 1, phone |-> "9000000001"]}
    /\ profiles = {[id |-> 1, phone |-> "9000000001"]}
    /\ user_roles = {[user_id |-> 1, role |-> "admin"]}
    /\ suppliers = {[id |-> 1, user_id |-> NULL, phone |-> "9000000002",
                     is_active |-> TRUE]}
    /\ milk_collections = {}
    /\ nextUserId = 2
    /\ nextSupplierId = 2
    /\ nextCollectionId = 1
    /\ current_date = 1

\* useState initial values: quantity '', fatPercentage '', baseRate '0.50'
\* (fat-adjusted form), ratePerLiter '35' (flat-rate form)
InitFormMounted ==
    /\ formMode \in {"flat", "fat"}
    /\ supplierChoices = {}
    /\ selectedSupplier = EMPTY
    /\ quantity = EMPTY
    /\ fatPercentage = EMPTY
    /\ baseRate = IF formMode = "fat" THEN 50 ELSE EMPTY
    /\ ratePerLiter = IF formMode = "flat" THEN 3500 ELSE EMPTY
    /\ calc = Render(formMode, quantity, fatPercentage, baseRate, ratePerLiter)

InitForm == InitFormDb /\ InitHist /\ InitFormMounted /\ InitPageIdle /\ InitAppIdle

\* onValueChange / onChange handlers; the state change re-renders the form
setSelectedSupplier(v) ==
    /\ selectedSupplier' = v
    /\ UNCHANGED <<formMode, supplierChoices,
                   quantity, fatPercentage, baseRate, ratePerLiter, calc>>

setQuantity(v) ==
    /\ quantity' = v
    /\ calc' = Render(formMode, v, fatPercentage, baseRate, ratePerLiter)
    /\ UNCHANGED <<formMode, supplierChoices,
                   selectedSupplier, fatPercentage, baseRate, ratePerLiter>>

setFatPercentage(v) ==
    /\ formMode = "fat"
    /\ fatPercentage' = v
    /\ calc' = Render(formMode, quantity, v, baseRate, ratePerLiter)
    /\ UNCHANGED <<formMode, supplierChoices,
                   selectedSupplier, quantity, baseRate, ratePerLiter>>

setBaseRate(v) ==
    /\ formMode = "fat"
    /\ baseRate' = v
    /\ calc' = Render(formMode, quantity, fatPercentage, v, ratePerLiter)
    /\ UNCHANGED <<formMode, supplierChoices,
                   selectedSupplier, quantity, fatPercentage, ratePerLiter>>

setRatePerLiter(v) ==
    /\ formMode = "flat"
    /\ ratePerLiter' = v
    /\ calc' = Render(formMode, quantity, fatPercentage, baseRate, v)
    /\ UNCHANGED <<formMode, supplierChoices,
                   selectedSupplier, quantity, fatPercentage, baseRate>>

\* flat-rate handleSubmit: after a successful insert the form resets
\* selectedSupplier and quantity
FormSubmitFlat(caller) ==
    /\ formMode = "flat"
    /\ handleSubmitFlat(caller, selectedSupplier, quantity, ratePerLiter)
    /\ selectedSupplier' = EMPTY
    /\ quantity' = EMPTY
    /\ calc' = Render(formMode, EMPTY, fatPercentage, baseRate, ratePerLiter)
    /\ UNCHANGED <<formMode, supplierChoices,
                   fatPercentage, baseRate, ratePerLiter>>

\* fat-adjusted handleSubmit: after a successful insert the form resets
\* selectedSupplier, quantity and fatPercentage
FormSubmitFat(caller) ==
    /\ formMode = "fat"
    /\ handleSubmitFat(caller, selectedSupplier, quantity, fatPercentage, baseRate)
    /\ selectedSupplier' = EMPTY
    /\ quantity' = EMPTY
    /\ fatPercentage' = EMPTY
    /\ calc' = Render(formMode, EMPTY, EMPTY, baseRate, ratePerLiter)
    /\ UNCHANGED <<formMode, supplierChoices,
                   baseRate, ratePerLiter>>

\* fetchSuppliers, run by the mount effect: the suppliers with
\* is_active = true become the items of the Select
fetchSuppliers(caller) ==
    /\ supplierChoices' = {s.id : s \in {t \in suppliers :
                                            CanSelectSupplier(caller, t)
                                            /\ t.is_active}}
    /\ UNCHANGED <<formMode, selectedSupplier, quantity, fatPercentage,
                   baseRate, ratePerLiter, calc>>

FormIdleDb == UNCHANGED <<dbVars, histVars, realtime, pageVars, appVars>>

NextForm ==
    \/ /\ \E caller \in Callers : fetchSuppliers(caller)
       /\ FormIdleDb
    \/ /\ \E v \in {EMPTY} \cup supplierChoices : setSelectedSupplier(v)
       /\ FormIdleDb
    \/ /\ \E v \in IF formMode = "flat" THEN FlatQuantities ELSE FatQuantities :
             setQuantity(v)
       /\ FormIdleDb
    \/ /\ \E v \in FatPercentages : setFatPercentage(v)
       /\ FormIdleDb
    \/ /\ \E v \in BaseRates : setBaseRate(v)
       /\ FormIdleDb
    \/ /\ \E v \in FlatRates : setRatePerLiter(v)
       /\ FormIdleDb
    \/ /\ nextCollectionId <= MaxFormCollections
       /\ \E caller \in Callers : FormSubmitFlat(caller)
       /\ UNCHANGED <<pageVars, appVars>>
    \/ /\ nextCollectionId <= MaxFormCollections
       /\ \E caller \in Callers : FormSubmitFat(caller)
       /\ UNCHANGED <<pageVars, appVars>>
    \* ManageSuppliers in another session of the admin
    \/ /\ \E caller \in Callers, id \in SupplierIds, currentStatus \in BOOLEAN :
             handleToggleActive(caller, id, currentStatus)
       /\ UNCHANGED <<formVars, pageVars, appVars>>

SpecForm == InitForm /\ [][NextForm]_vars

(***************************************************************************)
(* Supplier page: fetchSupplierData and the realtime subscription          *)
(***************************************************************************)
\* .limit(30) of the collections query
FetchLimit == 30
\* .slice(0, 30) of the realtime handler
WindowSize == 30

MaxPageCollections == 32
MaxDay == 2

\* ORDER BY collection_date DESC; the order of rows of one date is not
\* specified: by ascending id (tie = "asc") or by descending id
Before(x, y, tie) ==
    \/ x.collection_date > y.collection_date
    \/ /\ x.collection_date = y.collection_date
       /\ IF tie = "asc" THEN x.id <= y.id ELSE x.id >= y.id

RECURSIVE OrderLimit(_, _, _)
OrderLimit(rows, n, tie) ==
    IF n = 0 \/ rows = {}
    THEN <<>>
    ELSE LET x == CHOOSE x \in rows : \A y \in rows : Before(x, y, tie)
         IN  <<x>> \o OrderLimit(rows \ {x}, n - 1, tie)

\* reduce((sum, col) => sum + Number(col.quantity_liters), 0) || 0
RECURSIVE totalLiters(_)
totalLiters(cols) ==
    IF cols = <<>> THEN 0
    ELSE Head(cols).quantity_liters + totalLiters(Tail(cols))

\* reduce((sum, col) => sum + Number(col.total_amount), 0) || 0
RECURSIVE totalAmt(_)
totalAmt(cols) ==
    IF cols = <<>> THEN 0
    ELSE Head(cols).total_amount + totalAmt(Tail(cols))

\* fetchSupplierData, first part: the supplier query with .single(),
\* setSupplier, and the collections query; the answer is held until the
\* second part runs
fetchSupplierData_query(tie) ==
    /\ pageUser # NULL
    /\ ~fetchPending.active
    /\ LET found == {s \in suppliers :
                        CanSelectSupplier(pageUser, s) /\ s.user_id = pageUser}
       IN  /\ Cardinality(found) = 1          \* .single(): else it throws
           /\ LET supplierData == CHOOSE s \in found : TRUE
                  rows == SelectRows(pageUser, supplierData.id)
              IN  /\ supplier' = supplierData.id
                  /\ fetchPending' =
                        [active |-> TRUE,
                         rows |-> OrderLimit(rows, FetchLimit, tie)]
    /\ UNCHANGED <<pageUser, collections, stats>>

\* fetchSupplierData, second part: setCollections and setStats
fetchSupplierData_apply ==
    /\ fetchPending.active
    /\ collections' = fetchPending.rows
    /\ stats' = [totalCollections |-> totalLiters(fetchPending.rows),
                 totalAmount |-> totalAmt(fetchPending.rows)]
    /\ fetchPending' = [active |-> FALSE, rows |-> <<>>]
    /\ UNCHANGED <<pageUser, supplier>>

Min(a, b) == IF a <= b THEN a ELSE b

\* the handler of the postgres_changes INSERT subscription
realtimeInsert ==
    /\ realtime # <<>>
    /\ LET newCollection == Head(realtime) @@ ("admin_name" :> "Admin")
           list == <<newCollection>> \o collections
       IN  /\ collections' = SubSeq(list, 1, Min(Len(list), WindowSize))
           /\ stats' =
                 [totalCollections |->
                      stats.totalCollections + newCollection.quantity_liters,
                  totalAmount |->
                      stats.totalAmount + newCollection.total_amount]
    /\ realtime' = Tail(realtime)
    /\ UNCHANGED <<pageUser, supplier, fetchPending>>

\* CURRENT_DATE moves on
NextDay ==
    /\ current_date < MaxDay
    /\ current_date' = current_date + 1
    /\ UNCHANGED <<auth_users, profiles, user_roles, suppliers,
                   milk_collections, nextUserId, nextSupplierId,
                   nextCollectionId>>

\* the text of a DATE column in a query answer ('YYYY-MM-DD'), by day number
DateTexts == <<"2025-10-05", "2025-10-06", "2025-10-07", "2025-10-08">>

DateText(d) == DateTexts[d]

(***************************************************************************)
(* CSV export of the supplier page.  A text is a sequence of pieces; a     *)
(* comma and a line feed are pieces of their own.                          *)
(***************************************************************************)
\* Array.prototype.join(sep) over texts
RECURSIVE join(_, _)
join(parts, sep) ==
    IF parts = <<>> THEN <<>>
    ELSE IF Len(parts) = 1 THEN parts[1]
    ELSE parts[1] \o <<sep>> \o join(Tail(parts), sep)

\* format(new Date(c.collection_date), 'MMM dd, yyyy'), by day number
FormattedDates == << <<"Oct 05", ",", " 2025">>, <<"Oct 06", ",", " 2025">>,
                     <<"Oct 07", ",", " 2025">>, <<"Oct 08", ",", " 2025">> >>

\* Number(x).toFixed(2) of a DECIMAL(_, 2) value held in hundredths
toFixed2(h) ==
    ToString(h \div 100) \o "." \o ToString((h % 100) \div 10)
                         \o ToString(h % 10)

\* c.admin_name || 'N/A': fetchSupplierData sets admin_name only on rows
\* with created_by, which the form's insert leaves NULL; the realtime
\* handler sets it on every row it adds
admin_name(c) == IF "admin_name" \in DOMAIN c THEN c.admin_name ELSE "N/A"

csvHeader ==
    << <<"Date">>, <<"Quantity (L)">>, <<"Rate/L">>, <<"Amount">>,
       <<"Added By">> >>

\* the array of one data row, before its join(',')
csvRow(c) ==
    << FormattedDates[c.collection_date],
       <<toFixed2(c.quantity_liters)>>,
       <<toFixed2(c.rate_per_liter)>>,
       <<toFixed2(c.total_amount)>>,
       <<admin_name(c)>> >>

\* Supplier.handleDownload: header and rows joined by ',' and '\n'
handleDownload ==
    /\ download' =
          [filename |-> "my-collections-" \o DateText(current_date) \o ".csv",
           csvContent |->
              join(<<join(csvHeader, ",")>>
                      \o [i \in 1..Len(collections) |->
                             join(csvRow(collections[i]), ",")],
                   "\n"),
           collections |-> collections]
    /\ UNCHANGED pageVars

DownloadRest ==
    UNCHANGED <<dbVars, histVars, realtime, formVars, report,
                otp_verifications, loginVars, providerVars, fnVars,
                pageQueries>>

\* the rows present when the page is opened: n records of 1.00 l at 35.00
InitialRows(n) ==
    {[id |-> i, supplier_id |-> 1, collection_date |-> 1,
      quantity_liters |-> 100, fat_percentage |-> NULL,
      rate_per_liter |-> 3500, total_amount |-> 3500, created_by |-> NULL]
     : i \in 1..n}

\* an admin (1), a supplier account (2) linked to supplier row 1, and
\* FetchLimit - 1 or FetchLimit collection records of that supplier
InitPageDb ==
    /\ auth_users = {[id |-> 1, phone |-> "9000000001"],
                     [id |-> 2, phone |-> "9000000002"]}
    /\ profiles = auth_users
    /\ user_roles = {[user_id |-> 1, role |-> "admin"],
                     [user_id |-> 2, role |-> "supplier"]}
    /\ suppliers = {[id |-> 1, user_id |-> 2, phone |-> "9000000002",
                     is_active |-> TRUE]}
    /\ \E n \in {FetchLimit - 1, FetchLimit} :
          /\ milk_collections = InitialRows(n)
          /\ nextCollectionId = n + 1
    /\ nextUserId = 3
    /\ nextSupplierId = 2
    /\ current_date = 1

\* the page is mounted for the signed-in supplier account
InitPageMounted ==
    /\ pageUser = 2
    /\ supplier = NULL
    /\ collections = <<>>
    /\ stats = [totalCollections |-> 0, totalAmount |-> 0]
    /\ fetchPending = [active |-> FALSE, rows |-> <<>>]
    /\ realtime = <<>>

InitPage == InitPageDb /\ InitHist /\ InitFormIdle /\ InitPageMounted /\ InitAppIdle

\* what the admin enters while the page is open
PageQuantities == {250}
PageRates == {3500}

NextPage ==
    \/ /\ \E tie \in {"asc", "desc"} : fetchSupplierData_query(tie)
       /\ UNCHANGED <<dbVars, histVars, realtime, formVars, appVars>>
    \/ /\ fetchSupplierData_apply
       /\ UNCHANGED <<dbVars, histVars, realtime, formVars, appVars>>
    \/ /\ realtimeInsert
       /\ UNCHANGED <<dbVars, histVars, formVars, appVars>>
    \/ /\ nextCollectionId <= MaxPageCollections
       /\ \E caller \in Callers, sel \in SupplierIds,
             q \in PageQuantities, r \in PageRates :
             handleSubmitFlat(caller, sel, q, r)
       /\ UNCHANGED <<formVars, pageVars, appVars>>
    \/ /\ NextDay
       /\ UNCHANGED <<histVars, realtime, formVars, pageVars, appVars>>
    \/ /\ handleDownload
       /\ DownloadRest

SpecPage == InitPage /\ [][NextPage]_vars

(***************************************************************************)
(* Reports: the aggregations of the supplier dashboard, the admin          *)
(* dashboard, the daily payment summary and the daily SMS summary job      *)
(***************************************************************************)
MaxReportRows == 3

\* new Date(text).getTime(), counted in days
getTime(text) == CHOOSE d \in 1..Len(DateTexts) : DateTexts[d] = text

RECURSIVE Gcd(_, _)
Gcd(a, b) == IF b = 0 THEN a ELSE Gcd(b, a % b)

\* 0 / 0 of JavaScript numbers
NaN == [num |-> 0, den |-> 0]

\* s / n of non-negative JavaScript numbers, as a fraction in lowest terms;
\* x / 0 is Infinity for x > 0
Quot(s, n) ==
    IF n = 0
    THEN IF s = 0 THEN NaN ELSE [num |-> 1, den |-> 0]
    ELSE [num |-> s \div Gcd(s, n), den |-> n \div Gcd(s, n)]

\* reduce((sum, col) => sum + Number(col.fat_percentage), 0), and the same
\* with Number(c.fat_percentage || 0): Number(null) is 0
RECURSIVE sumFat(_)
sumFat(cols) ==
    IF cols = <<>> THEN 0
    ELSE (IF Head(cols).fat_percentage = NULL THEN 0
          ELSE Head(cols).fat_percentage) + sumFat(Tail(cols))

\* the average without its length test
avgFat_unguarded(cols) == Quot(sumFat(cols), Len(cols))

\* both dashboards: cols?.length ? cols.reduce(...) / cols.length : 0
avgFat(cols) ==
    IF Len(cols) # 0 THEN Quot(sumFat(cols), Len(cols)) ELSE Quot(0, 1)

\* the rows of a query answer in the order the database returns them
Answer(rows, tie) == OrderLimit(rows, Cardinality(rows), tie)

\* the supplier dashboard with the average fat card: fetchSupplierData
\* for the signed-in account user_
fetchSupplierData_stats(user_, tie) ==
    /\ user_ # NULL
    /\ LET found == {s \in suppliers :
                        CanSelectSupplier(user_, s) /\ s.user_id = user_}
       IN  /\ Cardinality(found) = 1          \* .single(): else it throws
           /\ LET supplierData == CHOOSE s \in found : TRUE
                  collectionsWithAdmins ==
                      OrderLimit(SelectRows(user_, supplierData.id),
                                 FetchLimit, tie)
              IN  report' =
                     [op |-> "fetchSupplierData",
                      rows |-> collectionsWithAdmins,
                      stats |->
                         [totalCollections |-> totalLiters(collectionsWithAdmins),
                          totalAmount |-> totalAmt(collectionsWithAdmins),
                          avgFatPercentage |-> avgFat(collectionsWithAdmins)]]

\* the admin dashboard: fetchDashboardStats
fetchDashboardStats(caller, tie) ==
    LET today == current_date
        suppliersCount ==
            Cardinality({s \in suppliers :
                            CanSelectSupplier(caller, s) /\ s.is_active})
        todayCollections ==
            Answer({c \in SelectRows(caller, NULL) : c.collection_date = today},
                   tie)
    IN  report' =
           [op |-> "fetchDashboardStats",
            rows |-> todayCollections,
            stats |->
               [totalSuppliers |-> suppliersCount,
                todayCollection |-> totalLiters(todayCollections),
                todayPayment |-> totalAmt(todayCollections),
                avgFatPercentage |-> avgFat(todayCollections)]]

\* the accumulation that forgets what the group held
addToGroup_overwrite(acc, curr) ==
    LET date == DateText(curr.collection_date)
    IN  [k \in DOMAIN acc \cup {date} |->
            IF k = date
            THEN [date |-> date,
                  totalLiters |-> curr.quantity_liters,
                  totalAmount |-> curr.total_amount,
                  collectionCount |-> 1]
            ELSE acc[k]]

\* one step of the reduce of fetchDailyTotals: acc[date] is created at
\* zero when absent, then the record is added to it
addToGroup(acc, curr) ==
    LET date == DateText(curr.collection_date)
        prev == IF date \in DOMAIN acc
                THEN acc[date]
                ELSE [date |-> date, totalLiters |-> 0, totalAmount |-> 0,
                      collectionCount |-> 0]
    IN  [k \in DOMAIN acc \cup {date} |->
            IF k = date
            THEN [date |-> date,
                  totalLiters |-> prev.totalLiters + curr.quantity_liters,
                  totalAmount |-> prev.totalAmount + curr.total_amount,
                  collectionCount |-> prev.collectionCount + 1]
            ELSE acc[k]]

RECURSIVE grouped(_, _)
grouped(data, acc) ==
    IF data = <<>> THEN acc
    ELSE grouped(Tail(data), addToGroup(acc, Head(data)))

\* Object.values(grouped).sort(by date, most recent first)
RECURSIVE totalsArray(_)
totalsArray(groups) ==
    IF groups = {} THEN <<>>
    ELSE LET g == CHOOSE g \in groups :
                     \A h \in groups : getTime(g.date) >= getTime(h.date)
         IN  <<g>> \o totalsArray(groups \ {g})

\* DailyPaymentSummary.fetchDailyTotals
fetchDailyTotals(caller, tie) ==
    LET data == Answer(SelectRows(caller, NULL), tie)
        groups == grouped(data, <<>>)
    IN  report' =
           [op |-> "fetchDailyTotals",
            rows |-> data,
            dailyTotals |-> totalsArray({groups[k] : k \in DOMAIN groups})]

\* the daily SMS summary job (service role: no row-level security), for one
\* day: the message composed for every active supplier that has records
\* today; a supplier without records is skipped
dailyMilkSummary(tie) ==
    LET today == current_date
        active == {s \in suppliers : s.is_active}
        todays(s) == Answer({c \in milk_collections :
                                c.supplier_id = s.id
                                /\ c.collection_date = today}, tie)
    IN  report' =
           [op |-> "dailyMilkSummary",
            rows |-> Answer({c \in milk_collections :
                                c.collection_date = today}, tie),
            messages |->
               {[supplier |-> s.id,
                 collections |-> Len(todays(s)),
                 totalQuantity |-> totalLiters(todays(s)),
                 totalAmount |-> totalAmt(todays(s)),
                 avgFat |-> Quot(sumFat(todays(s)), Len(todays(s)))]
                : s \in {t \in active : Len(todays(t)) # 0}}]

\* an admin (1), a supplier account (2) linked to supplier row 1, a second
\* supplier row without an account, no collection records
InitReportDb ==
    /\ auth_users = {[id |-> 1, phone |-> "9000000001"],
                     [id |-> 2, phone |-> "9000000002"]}
    /\ profiles = auth_users
    /\ user_roles = {[user_id |-> 1, role |-> "admin"],
                     [user_id |-> 2, role |-> "supplier"]}
    /\ suppliers = {[id |-> 1, user_id |-> 2, phone |-> "9000000002",
                     is_active |-> TRUE],
                    [id |-> 2, user_id |-> NULL, phone |-> "9000000003",
                     is_active |-> TRUE]}
    /\ milk_collections = {}
    /\ nextUserId = 3
    /\ nextSupplierId = 3
    /\ nextCollectionId = 1
    /\ current_date = 1

InitReports ==
    InitReportDb /\ InitHist /\ InitFormIdle /\ InitPageIdle /\ InitAppIdle

\* the login screen and the provider take no step
AuthIdle ==
    UNCHANGED <<otp_verifications, loginVars, providerVars, fnVars, download,
                pageQueries>>

\* what the admin enters in the two forms
ReportQuantities == {250}
ReportRates == {3500}
ReportFats == {400, 600}
ReportBaseRates == {50}

ReportIdle ==
    /\ UNCHANGED <<dbVars, histVars, realtime, formVars, pageVars>>
    /\ AuthIdle

\* a report is on screen until the admin records the next collection or
\* the day ends
ReportClosed ==
    /\ report' = [op |-> "none"]
    /\ UNCHANGED <<formVars, pageVars>>
    /\ AuthIdle

NextReports ==
    \/ /\ nextCollectionId <= MaxReportRows
       /\ \E sel \in SupplierIds, q \in ReportQuantities, r \in ReportRates :
             handleSubmitFlat(1, sel, q, r)
       /\ ReportClosed
    \/ /\ nextCollectionId <= MaxReportRows
       /\ \E sel \in SupplierIds, q \in ReportQuantities,
             f \in ReportFats, b \in ReportBaseRates :
             handleSubmitFat(1, sel, q, f, b)
       /\ ReportClosed
    \/ /\ NextDay
       /\ ReportClosed
       /\ UNCHANGED <<histVars, realtime>>
    \/ /\ \E tie \in {"asc", "desc"} : fetchSupplierData_stats(2, tie)
       /\ ReportIdle
    \/ /\ \E tie \in {"asc", "desc"} : fetchDashboardStats(1, tie)
       /\ ReportIdle
    \/ /\ \E tie \in {"asc", "desc"} : fetchDailyTotals(1, tie)
       /\ ReportIdle
    \/ /\ \E tie \in {"asc", "desc"} : dailyMilkSummary(tie)
       /\ ReportIdle

SpecReports == InitReports /\ [][NextReports]_vars

(***************************************************************************)
(* Sign-in: the login tab of the Auth page and the AuthProvider            *)
(***************************************************************************)
\* what is typed into the login form
LoginPasswords == {"", "milk1234", "milk9999"}
LoginOTPs == {"", "123456", "654321"}

\* the password every account was created with
AccountPassword == "milk1234"

\* the code Math.random() draws in send-otp
GeneratedOTP == "123456"

\* the form the login tab renders: !otpSent ? phone : !otpVerified ? otp
\* : password
LoginForm ==
    IF ~otpSent THEN "phone" ELSE IF ~otpVerified THEN "otp" ELSE "password"

setLoginPhone(v) ==
    /\ LoginForm = "phone"
    /\ loginPhone' = v
    /\ UNCHANGED <<loginPassword, loginOTP, otpSent, otpVerified>>

setLoginOTP(v) ==
    /\ LoginForm = "otp"
    /\ loginOTP' = v
    /\ UNCHANGED <<loginPhone, loginPassword, otpSent, otpVerified>>

setLoginPassword(v) ==
    /\ LoginForm = "password"
    /\ loginPassword' = v
    /\ UNCHANGED <<loginPhone, loginOTP, otpSent, otpVerified>>

\* signInSchema: a 10-digit phone and a password
signInSchema(phone, password) == phone \in Phones /\ password # ""

\* the send-otp function: the insert into otp_verifications fails when
\* the table does not exist (500); the row stays when the SMS provider
\* refuses the message
send_otp_rows(phone) ==
    [otp_verifications EXCEPT
        !.rows = @ \cup {[phone |-> phone, otp |-> GeneratedOTP]}]

\* handleSendOTP with AuthContext.sendOTP; smsOk: the SMS provider
\* accepted the message
handleSendOTP(smsOk) ==
    /\ LoginForm = "phone"
    /\ signInSchema(loginPhone, "temp123")
    /\ otp_verifications.exists
    /\ otp_verifications' = send_otp_rows(loginPhone)
    /\ otpSent' = smsOk
    /\ UNCHANGED <<loginPhone, loginPassword, loginOTP, otpVerified>>

\* the verify-otp function, which AuthContext.verifyOTP invokes: the code
\* is accepted when otp_verifications holds it for the phone
verify_otp(phone, otp) ==
    /\ otp_verifications.exists
    /\ [phone |-> phone, otp |-> otp] \in otp_verifications.rows

\* handleVerifyOTP with AuthContext.verifyOTP
handleVerifyOTP ==
    /\ LoginForm = "otp"
    /\ loginOTP # ""
    /\ verify_otp(loginPhone, loginOTP)
    /\ otpVerified' = TRUE
    /\ UNCHANGED <<otp_verifications, loginPhone, loginPassword, loginOTP,
                   otpSent>>

\* the "Change Number" button of the OTP form
changeNumber ==
    /\ LoginForm = "otp"
    /\ otpSent' = FALSE
    /\ loginOTP' = ""
    /\ UNCHANGED <<otp_verifications, loginPhone, loginPassword, otpVerified>>

\* the SIGNED_OUT handler that leaves the role in place
onAuthStateChange_keepsRole(event, session_) ==
    IF event = "TOKEN_REFRESHED" /\ session_ = NULL
    THEN /\ session' = NULL
         /\ user' = NULL
         /\ userRole' = NullRole
         /\ roleFetches' = roleFetches
         /\ authLast' = "TOKEN_REFRESHED without session"
         /\ route' = "/auth"
    ELSE IF event = "SIGNED_OUT"
    THEN /\ session' = NULL
         /\ user' = NULL
         /\ userRole' = userRole
         /\ roleFetches' = roleFetches
         /\ authLast' = "SIGNED_OUT"
         /\ route' = route
    ELSE /\ session' = session_
         /\ user' = session_
         /\ IF session_ # NULL
            THEN /\ roleFetches' = roleFetches \cup {session_}
                 /\ userRole' = userRole
            ELSE /\ roleFetches' = roleFetches
                 /\ userRole' = NullRole
         /\ authLast' = event
         /\ route' = route

\* the listener given to supabase.auth.onAuthStateChange; session_ is the
\* id of the session's user or NULL
onAuthStateChange(event, session_) ==
    IF event = "TOKEN_REFRESHED" /\ session_ = NULL
    THEN /\ session' = NULL
         /\ user' = NULL
         /\ userRole' = NullRole
         /\ roleFetches' = roleFetches
         /\ authLast' = "TOKEN_REFRESHED without session"
         /\ route' = "/auth"
    ELSE IF event = "SIGNED_OUT"
    THEN /\ session' = NULL
         /\ user' = NULL
         /\ userRole' = NullRole
         /\ roleFetches' = roleFetches
         /\ authLast' = "SIGNED_OUT"
         /\ route' = route
    ELSE /\ session' = session_
         /\ user' = session_
         \* setTimeout(() => fetchUserRole(session.user.id), 0)
         /\ IF session_ # NULL
            THEN /\ roleFetches' = roleFetches \cup {session_}
                 /\ userRole' = userRole
            ELSE /\ roleFetches' = roleFetches
                 /\ userRole' = NullRole
         /\ authLast' = event
         /\ route' = route

\* "Users can view their own roles" / "Admins can view all roles"
CanSelectRole(caller, r) ==
    caller # NULL /\ (caller = r.user_id \/ has_role(caller, "admin"))

\* fetchUserRole(userId) answers: .single() gives an error unless exactly
\* one row is visible to the caller, which is the session the request was
\* sent with: that of userId, or the one current when the answer is handled
fetchUserRole(userId) ==
    /\ userId \in roleFetches
    /\ roleFetches' = roleFetches \ {userId}
    /\ \E caller \in {userId, session} :
          LET data == {r \in user_roles :
                          r.user_id = userId /\ CanSelectRole(caller, r)}
          IN  userRole' = IF Cardinality(data) = 1
                          THEN (CHOOSE r \in data : TRUE).role
                          ELSE userRole
    /\ authLast' = "fetchUserRole"
    /\ UNCHANGED <<user, session, route>>

\* handleLogin with AuthContext.signIn: signInWithPassword for
\* phone@milkflow.in; on success the client emits SIGNED_IN
handleLogin ==
    /\ LoginForm = "password"
    /\ signInSchema(loginPhone, loginPassword)
    /\ loginPassword = AccountPassword
    /\ \E u \in auth_users :
          u.phone = loginPhone /\ onAuthStateChange("SIGNED_IN", u.id)
    /\ UNCHANGED <<otp_verifications, loginVars>>

\* AuthContext.signOut answered without error: the client emits SIGNED_OUT,
\* then the function clears the state itself
signOut ==
    /\ session' = NULL
    /\ user' = NULL
    /\ userRole' = NullRole
    /\ roleFetches' = roleFetches
    /\ authLast' = "signOut"
    /\ route' = "/auth"

\* supabase.auth.getSession().then(...): the session kept by the browser,
\* if any, is put into the state once after the provider is mounted
getSession(stored) ==
    /\ authLast = "mount"
    /\ session' = stored
    /\ user' = stored
    /\ roleFetches' = IF stored # NULL THEN roleFetches \cup {stored}
                      ELSE roleFetches
    /\ authLast' = "getSession"
    /\ UNCHANGED <<userRole, route>>

\* the router mounts the page of a location the browser goes to (a link,
\* the history)
visit(path) ==
    /\ route' = path
    /\ UNCHANGED <<user, session, userRole, roleFetches, authLast,
                   pageQueries>>

\* Auth, Index: the redirect of a signed-in user with a role
AuthRedirectEffect ==
    /\ route = "/auth"
    /\ user # NULL /\ userRole # NullRole
    /\ route' = IF userRole = "admin" THEN "/admin" ELSE "/supplier"
    /\ UNCHANGED <<user, session, userRole, roleFetches, authLast,
                   pageQueries>>

\* what a guard effect does on the page of the role own, whose other
\* page is at the location other
GuardEffect(page, own, other) ==
    /\ IF user = NULL
       THEN route' = "/auth" /\ pageQueries' = pageQueries
       ELSE IF userRole # NullRole /\ userRole # own
       THEN route' = other /\ pageQueries' = pageQueries
       ELSE /\ route' = route
            /\ pageQueries' = [page |-> page, user |-> user,
                               userRole |-> userRole]
    /\ UNCHANGED <<user, session, userRole, roleFetches, authLast>>

\* Admin: useEffect on [user, userRole, navigate]; the queries are
\* fetchUserProfile and fetchDashboardStats
AdminGuardEffect ==
    /\ route = "/admin"
    /\ GuardEffect("admin", "admin", "/supplier")

\* Supplier: useEffect on [user, userRole, navigate]; the query is
\* fetchSupplierData
SupplierGuardEffect ==
    /\ route = "/supplier"
    /\ GuardEffect("supplier", "supplier", "/admin")

\* migration 20251007080443: DROP TABLE IF EXISTS public.otp_verifications
DropOtpVerifications ==
    /\ otp_verifications.exists
    /\ otp_verifications' = [exists |-> FALSE, rows |-> {}]

\* an admin account (1) and a supplier account (2) linked to supplier row 1
InitAuthDb ==
    /\ auth_users = {[id |-> 1, phone |-> "9000000001"],
                     [id |-> 2, phone |-> "9000000002"]}
    /\ profiles = auth_users
    /\ user_roles = {[user_id |-> 1, role |-> "admin"],
                     [user_id |-> 2, role |-> "supplier"]}
    /\ suppliers = {[id |-> 1, user_id |-> 2, phone |-> "9000000002",
                     is_active |-> TRUE]}
    /\ milk_collections = {}
    /\ nextUserId = 3
    /\ nextSupplierId = 2
    /\ nextCollectionId = 1
    /\ current_date = 1

\* the application is opened with nobody signed in, before or after the
\* migration that drops otp_verifications
InitAuth ==
    /\ InitAuthDb /\ InitHist /\ InitFormIdle /\ InitPageIdle
    /\ InitReportIdle
    /\ otp_verifications \in {[exists |-> TRUE, rows |-> {}],
                              [exists |-> FALSE, rows |-> {}]}
    /\ InitLogin
    /\ InitProvider
    /\ InitFunctionsIdle
    /\ InitDownload
    /\ InitGuards

AuthRest ==
    UNCHANGED <<dbVars, histVars, realtime, formVars, pageVars, report,
                fnVars, download, pageQueries>>

GuardRest ==
    UNCHANGED <<dbVars, histVars, realtime, formVars, pageVars, report,
                fnVars, download, otp_verifications, loginVars>>

NextAuth ==
    \/ /\ \E v \in Phones : setLoginPhone(v)
       /\ UNCHANGED <<otp_verifications, providerVars>>
       /\ AuthRest
    \/ /\ \E v \in LoginOTPs : setLoginOTP(v)
       /\ UNCHANGED <<otp_verifications, providerVars>>
       /\ AuthRest
    \/ /\ \E v \in LoginPasswords : setLoginPassword(v)
       /\ UNCHANGED <<otp_verifications, providerVars>>
       /\ AuthRest
    \/ /\ \E smsOk \in BOOLEAN : handleSendOTP(smsOk)
       /\ UNCHANGED providerVars
       /\ AuthRest
    \/ /\ handleVerifyOTP
       /\ UNCHANGED providerVars
       /\ AuthRest
    \/ /\ changeNumber
       /\ UNCHANGED providerVars
       /\ AuthRest
    \/ /\ handleLogin
       /\ AuthRest
    \/ /\ session # NULL
       /\ \E session_ \in {session, NULL} :
             onAuthStateChange("TOKEN_REFRESHED", session_)
       /\ UNCHANGED <<otp_verifications, loginVars>>
       /\ AuthRest
    \/ /\ session # NULL
       /\ onAuthStateChange("SIGNED_OUT", NULL)
       /\ UNCHANGED <<otp_verifications, loginVars>>
       /\ AuthRest
    \/ /\ \E userId \in roleFetches : fetchUserRole(userId)
       /\ UNCHANGED <<otp_verifications, loginVars>>
       /\ AuthRest
    \/ /\ signOut
       /\ UNCHANGED <<otp_verifications, loginVars>>
       /\ AuthRest
    \/ /\ DropOtpVerifications
       /\ UNCHANGED <<loginVars, providerVars>>
       /\ AuthRest
    \/ /\ \E stored \in {NULL} \cup {u.id : u \in auth_users} :
             getSession(stored)
       /\ UNCHANGED <<otp_verifications, loginVars>>
       /\ AuthRest
    \/ /\ \E path \in {"/auth", "/admin", "/supplier"} : visit(path)
       /\ GuardRest
    \/ /\ AuthRedirectEffect
       /\ GuardRest
    \/ /\ AdminGuardEffect
       /\ GuardRest
    \/ /\ SupplierGuardEffect
       /\ GuardRest

SpecAuth == InitAuth /\ [][NextAuth]_vars

(***************************************************************************)
(* daily-milk-summary edge function, one await at a time                   *)
(***************************************************************************)
MaxJobCollections == 2

\* the orders in which a select without ORDER BY may return the rows
Orders(S) ==
    {q \in [1..Cardinality(S) -> S] :
        \A a, b \in 1..Cardinality(S) : a # b => q[a] # q[b]}

\* the request arrives: the active suppliers are selected; an error of
\* that query is thrown to the outer catch, which answers 500
dailySummary_start(list, suppliersError) ==
    /\ job.pc = "idle"
    /\ list \in Orders({s.id : s \in {t \in suppliers : t.is_active}})
    /\ job' = IF suppliersError
              THEN [job EXCEPT !.pc = "done", !.status = 500]
              ELSE [job EXCEPT !.pc = "loop", !.list = list, !.i = 1]

\* what one pass of the loop body does for the supplier list[i]:
\* the outcome and the entry pushed to results (<<>> when none is pushed)
SupplierPass(id, collectionsError, tie, sms) ==
    LET todays == Answer({c \in milk_collections :
                             c.supplier_id = id
                             /\ c.collection_date = current_date}, tie)
    IN  IF collectionsError
        THEN [outcome |-> "queryError", pushed |-> <<>>]
        ELSE IF Len(todays) = 0
        THEN [outcome |-> "none", pushed |-> <<>>]
        ELSE IF sms = "throws"
        THEN [outcome |-> "exception",
              pushed |-> <<[supplier |-> id, status |-> "error"]>>]
        ELSE IF sms = "ok"
        THEN [outcome |-> "sent",
              pushed |-> <<[supplier |-> id, status |-> "sent"]>>]
        ELSE [outcome |-> "rejected",
              pushed |-> <<[supplier |-> id, status |-> "failed"]>>]

\* the loop body with the exception of fetch() escaping to the outer catch
dailySummary_supplier_rethrows(collectionsError, tie, sms) ==
    /\ job.pc = "loop"
    /\ job.i <= Len(job.list)
    /\ LET pass == SupplierPass(job.list[job.i], collectionsError, tie, sms)
       IN  job' = IF pass.outcome = "exception"
                  THEN [job EXCEPT !.pc = "done", !.status = 500]
                  ELSE [job EXCEPT !.i = job.i + 1,
                                   !.outcomes = Append(job.outcomes,
                                                       pass.outcome),
                                   !.results = job.results \o pass.pushed]

\* the loop body for the supplier list[i]: try { ... } catch { push error }
dailySummary_supplier(collectionsError, tie, sms) ==
    /\ job.pc = "loop"
    /\ job.i <= Len(job.list)
    /\ LET pass == SupplierPass(job.list[job.i], collectionsError, tie, sms)
       IN  job' = [job EXCEPT !.i = job.i + 1,
                              !.outcomes = Append(job.outcomes, pass.outcome),
                              !.results = job.results \o pass.pushed]

\* the loop is over: the response with the results and status 200
dailySummary_respond ==
    /\ job.pc = "loop"
    /\ job.i > Len(job.list)
    /\ job' = [job EXCEPT !.pc = "done", !.status = 200]

\* serve(handler): the function waits for the next request
dailySummary_serve ==
    /\ job.pc = "done"
    /\ job' = [pc |-> "idle", list |-> <<>>, i |-> 0, outcomes |-> <<>>,
               results |-> <<>>, status |-> 0]

InitJob ==
    InitReportDb /\ InitHist /\ InitFormIdle /\ InitPageIdle /\ InitAppIdle

JobRest ==
    UNCHANGED <<dbVars, histVars, realtime, formVars, pageVars, report,
                otp_verifications, loginVars, providerVars, download,
                pageQueries, sendSms>>

NextJob ==
    \/ /\ nextCollectionId <= MaxJobCollections
       /\ \E sel \in SupplierIds, q \in ReportQuantities, r \in ReportRates :
             handleSubmitFlat(1, sel, q, r)
       /\ Idle
    \/ /\ \E id \in SupplierIds, currentStatus \in BOOLEAN :
             handleToggleActive(1, id, currentStatus)
       /\ Idle
    \/ /\ \E list \in Orders(SupplierIds) \cup Orders({}) \cup
                      UNION {Orders({id}) : id \in SupplierIds},
             suppliersError \in BOOLEAN :
             dailySummary_start(list, suppliersError)
       /\ JobRest
    \/ /\ \E collectionsError \in BOOLEAN, tie \in {"asc", "desc"},
             sms \in {"ok", "rejected", "throws"} :
             dailySummary_supplier(collectionsError, tie, sms)
       /\ JobRest
    \/ /\ dailySummary_respond
       /\ JobRest
    \/ /\ dailySummary_serve
       /\ JobRest

SpecJob == InitJob /\ [][NextJob]_vars


(***************************************************************************)
(* send-sms edge function, one await at a time                             *)
(***************************************************************************)
\* the request arrives; token is the account the Authorization header's
\* JWT stands for, or NULL for a header that is no valid JWT
sendSms_receive(hasHeader, token, body) ==
    /\ sendSms.pc = "idle"
    /\ sendSms' = IF ~hasHeader
              THEN [sendSms EXCEPT !.pc = "done", !.status = 401,
                               !.body = body]
              ELSE [sendSms EXCEPT !.pc = "getUser", !.hasHeader = TRUE,
                               !.token = token, !.body = body]

\* supabase.auth.getUser() answers
sendSms_getUser ==
    /\ sendSms.pc = "getUser"
    /\ sendSms' = IF \E u \in auth_users : u.id = sendSms.token
              THEN [sendSms EXCEPT !.pc = "role", !.user = sendSms.token]
              ELSE [sendSms EXCEPT !.pc = "done", !.status = 401]

\* the role check accepting any role assignment of the user
sendSms_checkRole_anyRole ==
    /\ sendSms.pc = "role"
    /\ LET roleData == {r \in user_roles :
                           /\ CanSelectRole(sendSms.user, r)
                           /\ r.user_id = sendSms.user}
       IN  sendSms' = IF Cardinality(roleData) # 1
                  THEN [sendSms EXCEPT !.pc = "done", !.status = 403]
                  ELSE [sendSms EXCEPT !.pc = "send",
                                   !.wasAdmin = has_role(sendSms.user, "admin")]

\* user_roles .eq("user_id", user.id).eq("role", "admin").single() answers,
\* under the policies of the caller
sendSms_checkRole ==
    /\ sendSms.pc = "role"
    /\ LET roleData == {r \in user_roles :
                           /\ CanSelectRole(sendSms.user, r)
                           /\ r.user_id = sendSms.user
                           /\ r.role = "admin"}
       IN  sendSms' = IF Cardinality(roleData) # 1
                  THEN [sendSms EXCEPT !.pc = "done", !.status = 403]
                  ELSE [sendSms EXCEPT !.pc = "send",
                                   !.wasAdmin = has_role(sendSms.user, "admin")]

\* req.json(), the check of to and message, and the call of the provider
sendSms_send(providerStatus) ==
    /\ sendSms.pc = "send"
    /\ sendSms' = IF sendSms.body = "malformed"
              THEN [sendSms EXCEPT !.pc = "done", !.status = 500]
              ELSE IF sendSms.body = "incomplete"
              THEN [sendSms EXCEPT !.pc = "done", !.status = 400]
              ELSE [sendSms EXCEPT !.pc = "done", !.called = TRUE,
                               !.status = providerStatus]

\* serve(handler): the function waits for the next request
sendSms_serve ==
    /\ sendSms.pc = "done"
    /\ sendSms' = SmsIdle

InitSms ==
    InitAuthDb /\ InitHist /\ InitFormIdle /\ InitPageIdle /\ InitAppIdle

SmsRest ==
    UNCHANGED <<dbVars, histVars, realtime, formVars, pageVars, report,
                otp_verifications, loginVars, providerVars, download,
                pageQueries, job>>

\* what the provider answers: accepted, or rejected with its own status
ProviderStatuses == {200, 400}

NextSms ==
    \/ /\ \E hasHeader \in BOOLEAN, token \in {NULL, 1, 2},
             body \in {"complete", "incomplete", "malformed"} :
             sendSms_receive(hasHeader, token, body)
       /\ SmsRest
    \/ /\ sendSms_getUser
       /\ SmsRest
    \/ /\ sendSms_checkRole
       /\ SmsRest
    \/ /\ \E providerStatus \in ProviderStatuses : sendSms_send(providerStatus)
       /\ SmsRest
    \/ /\ sendSms_serve
       /\ SmsRest
    \/ /\ \E caller \in Callers, r \in user_roles, role \in AppRoles :
             UpdateRole(caller, r, role)
       /\ Idle
    \/ /\ \E caller \in Callers, r \in user_roles : DeleteRole(caller, r)
       /\ Idle
    \/ /\ \E caller \in Callers : delete_user(caller)
       /\ Idle

SpecSms == InitSms /\ [][NextSms]_vars

(***************************************************************************)
(* Access control                                                          *)
(***************************************************************************)
OnlySupplierRole(u) == has_role(u, "supplier") /\ ~has_role(u, "admin")

\* the caller of the step that is being taken held the admin role before it
ByAdmin == has_role(lastOp'.caller, "admin")

\* C1: the rows a SELECT on milk_collections returns to a caller who holds
\* only the supplier role all belong to suppliers whose user_id is the
\* caller, whatever the filter.
C1_SupplierSelectsOnlyOwnRows ==
    (lastOp.op = "SelectCollections" /\ OnlySupplierRole(lastOp.caller))
    => \A row \in selectResult :
          \E s \in suppliers : s.id = row.supplier_id /\ s.user_id = lastOp.caller

\* a supplier-role caller got rows back while rows of other suppliers exist
C1_Witness ==
    /\ lastOp.op = "SelectCollections"
    /\ OnlySupplierRole(lastOp.caller)
    /\ selectResult # {}
    /\ milk_collections \ selectResult # {}

\* C2 (as stated): every change of user_roles is made by a caller who
\* already holds the admin role.
C2_Original_RolesChangeOnlyByAdmin ==
    [][user_roles' # user_roles => ByAdmin]_vars

\* C2 (amended): user_roles changes only by a statement of a caller who
\* already holds the admin role, by account creation, which adds exactly one
\* assignment, for the new identity, or by delete_user, which removes only
\* the caller's own assignments.
C2_RolesChangeByAdminSignupOrDeleteUser ==
    [][user_roles' # user_roles =>
        \/ ByAdmin
        \/ /\ lastOp'.op = "signUp"
           /\ user_roles \subseteq user_roles'
           /\ Cardinality(user_roles' \ user_roles) = 1
           /\ \A r \in user_roles' \ user_roles : r.user_id = nextUserId
        \/ /\ lastOp'.op = "delete_user"
           /\ user_roles' \subseteq user_roles
           /\ \A r \in user_roles \ user_roles' : r.user_id = lastOp'.caller
      ]_vars

\* an admin has granted a second role to an identity
C2_Witness ==
    /\ lastOp.op = "InsertRole"
    /\ \E u \in auth_users : has_role(u.id, "admin") /\ has_role(u.id, "supplier")

\* C3 (as stated): a collection record is inserted or deleted only when
\* the caller holds the admin role.
C3_Original_CollectionsChangeOnlyByAdmin ==
    [][milk_collections' # milk_collections => ByAdmin]_vars

\* C3 (amended): a collection record is inserted only by a caller who holds
\* the admin role, and is deleted only by such a caller or by delete_user
\* called by the identity its supplier row is linked to.
C3_CollectionsInsertByAdminDeleteByAdminOrCascade ==
    [][/\ \A c \in milk_collections' \ milk_collections : ByAdmin
       /\ \A c \in milk_collections \ milk_collections' :
             \/ ByAdmin
             \/ /\ lastOp'.op = "delete_user"
                /\ \E s \in suppliers :
                      s.id = c.supplier_id /\ s.user_id = lastOp'.caller
      ]_vars

\* an admin has just inserted a record while a supplier-only identity exists
C3_Witness ==
    /\ lastOp.op = "InsertCollection"
    /\ milk_collections # {}
    /\ \E u \in auth_users : OnlySupplierRole(u.id)

Round2(x) == FromDecimal2(ToDecimal2(x))

\* C5: every persisted collection record has total_amount equal to
\* quantity_liters * rate_per_liter of the stored columns, rounded to two
\* decimals.
C5_StoredTotalIsStoredQuantityTimesRate ==
    \A c \in milk_collections :
        c.total_amount =
            ToDecimal2(Mul(FromDecimal2(c.quantity_liters),
                           FromDecimal2(c.rate_per_liter)))

\* C6: for positive quantity and rate the flat-rate calculation returns
\* round(quantity * rate, 2).
C6_FlatCalculationIsRounded ==
    (/\ formMode = "flat"
     /\ quantity # EMPTY /\ quantity > 0
     /\ ratePerLiter # EMPTY /\ ratePerLiter > 0)
    => calc.totalAmount = Round2(Mul(parseFloat(quantity), parseFloat(ratePerLiter)))

\* C7: the fat-adjusted calculation returns rate = base * (1 + fat/100) and
\* total = round(qty * base * (1 + fat/100), 2), and for fat = 0 its rate
\* and total are those of the flat-rate calculation at rate = base.
C7_FatCalculationIsRoundedAndFlatAtZero ==
    (/\ formMode = "fat"
     /\ quantity # EMPTY /\ fatPercentage # EMPTY /\ baseRate # EMPTY)
    => LET factor == Add(Dec(1, 0), Div100(parseFloat(fatPercentage)))
           rate == Mul(parseFloat(baseRate), factor)
       IN  /\ calc.ratePerLiter = rate
           /\ calc.totalAmount = Round2(Mul(parseFloat(quantity), rate))
           /\ fatPercentage = 0 =>
                 /\ calc.ratePerLiter = parseFloat(baseRate)
                 /\ calc.totalAmount = calculateAmountFlat(quantity, baseRate)

\* C8: with the fat percentage not entered and quantity and base rate
\* given, the fat-adjusted calculation yields rate = base and
\* total = qty * base.
C8_MissingFatIsZeroAdjustment ==
    (/\ formMode = "fat"
     /\ fatPercentage = EMPTY /\ quantity # EMPTY /\ baseRate # EMPTY)
    => /\ calc.ratePerLiter = parseFloat(baseRate)
       /\ calc.totalAmount = Mul(parseFloat(quantity), parseFloat(baseRate))

\* C9: no collection record with rate 0 and total 0 is ever persisted by
\* the add-collection operation.
C9_NoZeroRateRecordPersisted ==
    \A c \in milk_collections :
        ~(c.rate_per_liter = 0 /\ c.total_amount = 0)
(***************************************************************************)
(* Supplier dashboard totals                                               *)
(***************************************************************************)
\* C10: the dashboard's totalCollections and totalAmount are the full
\* aggregation over the collection list the page displays.
C10_StatsAreAggregationOfDisplayedList ==
    /\ stats.totalCollections = totalLiters(collections)
    /\ stats.totalAmount = totalAmt(collections)
(***************************************************************************)
(* Aggregation                                                             *)
(***************************************************************************)
\* the records whose fat_percentage is present
presentFats(cols) == SelectSeq(cols, LAMBDA c : c.fat_percentage # NULL)

\* the sum of the present fat percentages over their number
AvgOfPresent(cols) == Quot(sumFat(presentFats(cols)), Len(presentFats(cols)))

\* the records of a query answer that belong to supplier id
rowsOfSupplier(cols, id) == SelectSeq(cols, LAMBDA c : c.supplier_id = id)

\* C11: every average fat percentage the system computes (supplier
\* dashboard, admin today stats, daily SMS summary) is the sum of the
\* present fat percentages divided by the number of records that have
\* one; records without it count neither in the sum nor in the
\* denominator.
C11_AverageFatIsOverPresentValuesOnly ==
    /\ (/\ report.op \in {"fetchSupplierData", "fetchDashboardStats"}
        /\ presentFats(report.rows) # <<>>)
       => report.stats.avgFatPercentage = AvgOfPresent(report.rows)
    /\ report.op = "dailyMilkSummary"
       => \A m \in report.messages :
             presentFats(rowsOfSupplier(report.rows, m.supplier)) # <<>>
             => m.avgFat = AvgOfPresent(rowsOfSupplier(report.rows, m.supplier))

\* C12: an aggregation over an empty set of records yields zero totals and
\* a zero average on both dashboards and an empty group list in the daily
\* payment summary; no average is ever NaN or a division by zero, and the
\* SMS job, which divides only for suppliers that have records, composes
\* no message for a supplier without records.
C12_EmptyAggregationIsZero ==
    /\ (report.op = "fetchSupplierData" /\ report.rows = <<>>)
       => report.stats = [totalCollections |-> 0, totalAmount |-> 0,
                          avgFatPercentage |-> Quot(0, 1)]
    /\ (report.op = "fetchDashboardStats" /\ report.rows = <<>>)
       => /\ report.stats.todayCollection = 0
          /\ report.stats.todayPayment = 0
          /\ report.stats.avgFatPercentage = Quot(0, 1)
    /\ report.op \in {"fetchSupplierData", "fetchDashboardStats"}
       => report.stats.avgFatPercentage.den # 0
    /\ (report.op = "fetchDailyTotals" /\ report.rows = <<>>)
       => report.dailyTotals = <<>>
    /\ report.op = "dailyMilkSummary"
       => /\ \A m \in report.messages :
                m.avgFat.den # 0 /\ m.collections > 0
          /\ \A s \in suppliers :
                rowsOfSupplier(report.rows, s.id) = <<>>
                => \A m \in report.messages : m.supplier # s.id

\* the admin dashboard was computed on a day without records while records
\* of an earlier day exist
C12_Witness ==
    /\ report.op = "fetchDashboardStats"
    /\ report.rows = <<>>
    /\ milk_collections # {}

\* the records of a query answer whose collection_date has the text date
rowsOn(cols, date) ==
    SelectSeq(cols, LAMBDA c : DateText(c.collection_date) = date)

RECURSIVE sumCounts(_)
sumCounts(groups) ==
    IF groups = <<>> THEN 0
    ELSE Head(groups).collectionCount + sumCounts(Tail(groups))

\* C13: in the daily payment summary there is exactly one group per
\* distinct collection_date text among the fetched records (two records are
\* in the same group iff their date texts are identical, whatever their
\* suppliers); each group's collectionCount, totalLiters and totalAmount
\* are the count and sums over exactly the records of its date, and the
\* counts sum to the number of records.
C13_DailyGroupsPartitionRecordsByDate ==
    report.op = "fetchDailyTotals"
    => LET groups == {report.dailyTotals[i] : i \in DOMAIN report.dailyTotals}
       IN  /\ \A i, j \in DOMAIN report.dailyTotals :
                 report.dailyTotals[i].date = report.dailyTotals[j].date
                 => i = j
           /\ \A i \in DOMAIN report.rows :
                 \E g \in groups :
                    g.date = DateText(report.rows[i].collection_date)
           /\ \A g \in groups :
                 /\ rowsOn(report.rows, g.date) # <<>>
                 /\ g.collectionCount = Len(rowsOn(report.rows, g.date))
                 /\ g.totalLiters = totalLiters(rowsOn(report.rows, g.date))
                 /\ g.totalAmount = totalAmt(rowsOn(report.rows, g.date))
           /\ sumCounts(report.dailyTotals) = Len(report.rows)

\* three records were grouped: two of one date from different suppliers
\* and one of another date
C13_Witness ==
    /\ report.op = "fetchDailyTotals"
    /\ Len(report.rows) = 3
    /\ Len(report.dailyTotals) = 2
    /\ \E i, j \in DOMAIN report.rows :
          /\ report.rows[i].collection_date = report.rows[j].collection_date
          /\ report.rows[i].supplier_id # report.rows[j].supplier_id
(***************************************************************************)
(* Accounts, supplier links and referential integrity                      *)
(***************************************************************************)
\* C14: when an account is created with phone P, every supplier row whose
\* phone equals P and whose user_id was NULL before the step has the new
\* identity as its user_id in the state right after it.
C14_SignupLinksUnlinkedSupplierOfSamePhone ==
    [][\A u \in auth_users' \ auth_users :
          \A s \in suppliers :
             (s.phone = u.phone /\ s.user_id = NULL)
             => \E t \in suppliers' : t.id = s.id /\ t.user_id = u.id]_vars

\* the account created last was linked to a supplier row of its phone
C14_Witness ==
    /\ lastOp.op = "signUp"
    /\ \E u \in auth_users, s \in suppliers :
          u.id = nextUserId - 1 /\ s.phone = u.phone /\ s.user_id = u.id

\* C15: a supplier row whose user_id is set keeps that user_id in every
\* step that keeps the row, whatever the operation (signup, activation
\* toggle, collection insert or delete), so its collection records stay
\* associated with that one identity.
C15_SupplierLinkNeverChanges ==
    [][\A s \in suppliers, t \in suppliers' :
          (s.id = t.id /\ s.user_id # NULL) => t.user_id = s.user_id]_vars

\* a linked supplier row went through a later activation toggle and holds
\* a collection record
C15_Witness ==
    /\ lastOp.op = "handleToggleActive"
    /\ \E s \in suppliers :
          /\ s.user_id # NULL
          /\ ~s.is_active
          /\ \E c \in milk_collections : c.supplier_id = s.id

\* the new identity of a signup step has one profile row and one role
\* assignment, with the role chosen at signup
SignupGivesOneProfileOneRole ==
    \A u \in auth_users' \ auth_users :
       /\ Cardinality({p \in profiles' : p.id = u.id}) = 1
       /\ {r \in user_roles' : r.user_id = u.id} =
             {[user_id |-> u.id,
               role |-> IF lastOp'.role = NoRole THEN "supplier"
                        ELSE lastOp'.role]}
       /\ lastOp'.op = "signUp"

hasProfile(uid) == \E p \in profiles : p.id = uid

hasAssignment(uid) == \E r \in user_roles : r.user_id = uid

C20_SupplierDeleteCascadesToCollections ==
    /\ [][\A s \in suppliers :
             (~\E t \in suppliers' : t.id = s.id)
             => \A c \in milk_collections' : c.supplier_id # s.id]_vars
    /\ [](\A c \in milk_collections :
             \E s \in suppliers : s.id = c.supplier_id)

\* a supplier row was deleted after a collection record had been entered,
\* and no record is left
C20_Witness ==
    /\ lastOp.op = "handleDeleteSupplier"
    /\ nextCollectionId > 1
    /\ milk_collections = {}
(***************************************************************************)
(* Sign-in and session state                                               *)
(***************************************************************************)
\* the password form is rendered only after a code was sent and verified
PasswordFormOnlyAfterOtp == LoginForm = "password" => otpSent /\ otpVerified

\* C17: the password sign-in can be reached and submitted with no one-time
\* code sent or verified: whenever the login screen has neither sent nor
\* verified a code (its initial state, before and after otp_verifications
\* is dropped), the form it renders is the one that submits signIn.
C17_PasswordSignInNeedsNoOtp ==
    (~otpSent /\ ~otpVerified) => LoginForm = "password"

\* C18: in the state right after a SIGNED_OUT event, a TOKEN_REFRESHED
\* event without a session, or a successful signOut has been handled, the
\* provider's user, session and userRole are all null.
C18_SessionStateClearedOnLogout ==
    authLast \in {"SIGNED_OUT", "TOKEN_REFRESHED without session", "signOut"}
    => user = NULL /\ session = NULL /\ userRole = NullRole

\* a SIGNED_OUT event was handled while the role request of the session
\* that ended has not answered yet
C18_Witness ==
    /\ authLast = "SIGNED_OUT"
    /\ roleFetches # {}
(***************************************************************************)
(* Supplier choice of the add-collection form                              *)
(***************************************************************************)
ActiveSupplierIds == {s.id : s \in {t \in suppliers : t.is_active}}

\* every record the form inserts is of a supplier that is active then
NoCollectionForInactiveSupplier ==
    [][\A c \in milk_collections' \ milk_collections :
          c.supplier_id \in ActiveSupplierIds]_vars

\* C19: the supplier choice set of the add-collection form contains only
\* suppliers whose is_active flag is true, and no collection record is
\* created through the form for a supplier that is inactive at that time.
C19_FormOffersAndRecordsOnlyActiveSuppliers ==
    /\ [](supplierChoices \subseteq ActiveSupplierIds)
    /\ NoCollectionForInactiveSupplier

(***************************************************************************)
(* Collection records are immutable                                        *)
(***************************************************************************)
\* the step flips the is_active flag of some supplier
TogglesSupplier ==
    \E s \in suppliers, t \in suppliers' :
        s.id = t.id /\ s.is_active # t.is_active

\* C21: no operation changes a field of an existing collection record (a
\* record that is present before and after a step is the same record), and
\* a step that activates or deactivates a supplier leaves every collection
\* record present and unchanged.
C21_CollectionRecordsAreImmutable ==
    [][/\ \A c \in milk_collections, d \in milk_collections' :
             d.id = c.id => d = c
       /\ TogglesSupplier => milk_collections' = milk_collections]_vars

\* a supplier that has a collection record has just been deactivated
C21_Witness ==
    /\ lastOp.op = "handleToggleActive"
    /\ \E c \in milk_collections, s \in suppliers :
          s.id = c.supplier_id /\ ~s.is_active

(***************************************************************************)
(* Daily summary job                                                       *)
(***************************************************************************)
\* C22: a failure while one supplier is processed (collection query error,
\* rejection by the SMS provider, exception) never stops the job: once in
\* the loop, the handler goes on to the next supplier after every pass and
\* ends only after the last supplier of the list, with a 200 response.
C22_SupplierFailureNeverStopsJob ==
    [][job.pc = "loop" /\ job' # job =>
          /\ job'.pc \in {"loop", "done"}
          /\ job.i <= Len(job.list) =>
                job'.pc = "loop" /\ job'.i = job.i + 1
          /\ job'.pc = "done" =>
                /\ job'.status = 200
                /\ Len(job'.outcomes) = Len(job'.list)]_vars

\* the job answered 200 after the first supplier failed and the second
\* one got its message
C22_Witness ==
    /\ job.pc = "done"
    /\ job.status = 200
    /\ Len(job.list) = 2
    /\ job.outcomes[1] \in {"queryError", "rejected", "exception"}
    /\ job.outcomes[2] = "sent"

\* the entries of results about the supplier id
entriesOf(id) == {n \in 1..Len(job.results) : job.results[n].supplier = id}

\* C23: every supplier of the list whose pass failed (collection query
\* error, rejection by the SMS provider, exception) or whose message was
\* sent has exactly one entry in results, with status failed, error or sent.
C23_EveryFailedOrSentSupplierHasOneEntry ==
    \A k \in 1..Len(job.outcomes) :
        job.outcomes[k] \in {"queryError", "rejected", "exception", "sent"}
        => /\ Cardinality(entriesOf(job.list[k])) = 1
           /\ \A n \in entriesOf(job.list[k]) :
                 job.results[n].status \in {"failed", "error", "sent"}

(***************************************************************************)
(* CSV export                                                              *)
(***************************************************************************)
\* String.prototype.split(sep): the pieces between the separators
RECURSIVE split(_, _)
split(text, sep) ==
    IF \A k \in 1..Len(text) : text[k] # sep THEN <<text>>
    ELSE LET k == CHOOSE n \in 1..Len(text) :
                     text[n] = sep /\ \A j \in 1..(n - 1) : text[j] # sep
         IN  <<SubSeq(text, 1, k - 1)>>
                \o split(SubSeq(text, k + 1, Len(text)), sep)

\* C24: in the supplier's CSV export the header is date, quantity, rate,
\* amount, preparer, and every data row has exactly as many comma-separated
\* fields as the header, the i-th field holding the value of the i-th
\* column of its collection record.
C24_CsvRowsMatchHeaderColumns ==
    download.filename # "" =>
       LET lines == split(download.csvContent, "\n")
           header == split(lines[1], ",")
       IN  /\ header = csvHeader
           /\ Len(lines) = 1 + Len(download.collections)
           /\ \A i \in 1..Len(download.collections) :
                 LET fields == split(lines[i + 1], ",")
                 IN  /\ Len(fields) = Len(header)
                     /\ fields = csvRow(download.collections[i])

(***************************************************************************)
(* Role resolution and the pages                                           *)
(***************************************************************************)
\* C25: the admin dashboard issues its data queries only when the resolved
\* role (userRole) of the signed-in user is admin, and the supplier page
\* only when it is supplier; with userRole unresolved (null) or the other
\* role neither page issues its queries.
C25_PagesFetchOnlyWithTheirResolvedRole ==
    /\ pageQueries.page = "admin" => pageQueries.userRole = "admin"
    /\ pageQueries.page = "supplier" => pageQueries.userRole = "supplier"

\* C26: in every reachable state of the provider userRole is null or the
\* role assignment of the identity held in user; with user null userRole
\* is null, and the answer of a role lookup of a session that has ended
\* never sets the role.
C26_UserRoleIsRoleOfCurrentUser ==
    userRole # NullRole =>
       /\ user # NULL
       /\ \E r \in user_roles : r.user_id = user /\ r.role = userRole

(***************************************************************************)
(* Supplier page list                                                      *)
(***************************************************************************)
\* slice(0, 30) and limit(30) keep the list within the window
ListWithinWindow == Len(collections) <= WindowSize

\* C27: under any interleaving of fetchSupplierData with realtime INSERT
\* notifications the displayed list never holds more than 30 entries and
\* never holds the same collection record twice.
C27_ListBoundedAndWithoutDuplicates ==
    /\ ListWithinWindow
    /\ \A i, j \in 1..Len(collections) :
          i # j => collections[i].id # collections[j].id

(***************************************************************************)
(* Linking after the account exists                                        *)
(***************************************************************************)
\* the supplier rows the supplier page of the account uid finds:
\* from('suppliers').select('*').eq('user_id', user.id)
supplierRowsOf(uid) ==
    {s \in suppliers : CanSelectSupplier(uid, s) /\ s.user_id = uid}

\* C28: linking happens only at account creation: a new supplier row has
\* user_id null, an unlinked row becomes linked only in the step that
\* creates an account with its exact phone (and to that account), and the
\* supplier page of an existing identity with that phone does not find the
\* unlinked row.
C28_LinkingOnlyAtAccountCreation ==
    /\ [][/\ \A t \in suppliers' :
                (\A s \in suppliers : s.id # t.id) => t.user_id = NULL
          /\ \A s \in suppliers, t \in suppliers' :
                (s.id = t.id /\ s.user_id = NULL /\ t.user_id # NULL)
                => \E u \in auth_users' \ auth_users :
                      u.phone = s.phone /\ t.user_id = u.id]_vars
    /\ [](\A u \in auth_users, s \in suppliers :
             (s.phone = u.phone /\ s.user_id = NULL)
             => s \notin supplierRowsOf(u.id))

\* a supplier row was added for the phone of an account that already
\* exists, and the account has no supplier row
C28_Witness ==
    /\ lastOp.op = "handleAddSupplier"
    /\ \E u \in auth_users, s \in suppliers :
          /\ s.id = nextSupplierId - 1
          /\ s.phone = u.phone
          /\ s.user_id = NULL
          /\ supplierRowsOf(u.id) = {}

(***************************************************************************)
(* Account deletion                                                        *)
(***************************************************************************)
\* C29: a step that removes an account removes exactly the calling
\* identity: its profile, its role assignments, the supplier rows linked to
\* it and the collection records of those rows; every other account,
\* profile, role assignment, supplier row and collection record is left
\* unchanged.
C29_DeleteUserRemovesExactlyTheCaller ==
    [][\A u \in auth_users \ auth_users' :
          /\ lastOp'.op = "delete_user" /\ lastOp'.caller = u.id
          /\ auth_users' = auth_users \ {u}
          /\ profiles' = {p \in profiles : p.id # u.id}
          /\ user_roles' = {r \in user_roles : r.user_id # u.id}
          /\ suppliers' = {s \in suppliers : s.user_id # u.id}
          /\ milk_collections' =
                {c \in milk_collections :
                    \A s \in suppliers :
                       s.id = c.supplier_id => s.user_id # u.id}]_vars

\* an account was deleted: a supplier row and a collection record are gone
\* with it, while another account, an unlinked supplier row and a
\* collection record of that row are still there
C29_Witness ==
    /\ lastOp.op = "delete_user"
    /\ auth_users # {}
    /\ \E i \in 1..(nextSupplierId - 1) : \A s \in suppliers : s.id # i
    /\ \E i \in 1..(nextCollectionId - 1) :
          \A c \in milk_collections : c.id # i
    /\ \E s \in suppliers, c \in milk_collections :
          s.user_id = NULL /\ c.supplier_id = s.id

(***************************************************************************)
(* send-sms                                                                *)
(***************************************************************************)
\* C30: send-sms calls the SMS provider only after the request was found
\* to carry an Authorization header, the header resolved to an
\* authenticated user and that user held the admin role, checked in this
\* order; a request failing one of the checks is answered 401, 401 or 403
\* respectively and the provider is not called.
C30_SmsOnlyAfterHeaderUserAdmin ==
    /\ sendSms.called => sendSms.hasHeader /\ sendSms.user # NULL /\ sendSms.wasAdmin
    /\ sendSms.wasAdmin => sendSms.user # NULL
    /\ sendSms.user # NULL => sendSms.hasHeader /\ sendSms.user = sendSms.token
    /\ sendSms.pc = "done" =>
          /\ ~sendSms.hasHeader => sendSms.status = 401 /\ ~sendSms.called
          /\ (sendSms.hasHeader /\ sendSms.user = NULL) =>
                sendSms.status = 401 /\ ~sendSms.called
          /\ (sendSms.user # NULL /\ ~sendSms.wasAdmin) =>
                sendSms.status = 403 /\ ~sendSms.called

\* a request of an admin passed the three checks and the provider
\* accepted the message
C30_Witness ==
    /\ sendSms.pc = "done"
    /\ sendSms.called
    /\ sendSms.status = 200
====
